---- MODULE Spec2Model ----
(***************************************************************************)
(* Model of the unit loader's dependency resolver                          *)
(* (src/src/parser/generator.rs) and of UnitFile::validate                 *)
(* (src/src/unit/types.rs).                                                *)
(*                                                                         *)
(* generate_unit_list builds a petgraph Graph<usize, (), Directed> with    *)
(* one node per input unit, a HashMap from unit_name to node index, one    *)
(* edge per needs_before / needs_after entry, and runs                     *)
(* petgraph::algo::toposort on it.  Node indices and unit positions are    *)
(* 1-based here (0-based in the source); 0 stands for None.                *)
(***************************************************************************)
EXTENDS Integers, Sequences, FiniteSets, TLC

\* ------------------------------------------------------------------ bounds
MaxUnits == 3
MaxDeps == 2
NumSeeds == 2
MaxStrLen == 2
MaxFileDeps == 1

\* Names a unit may carry, and one more name that no unit carries.
UnitNames == <<"A", "B", "C">>
Ghost == "ghost"
DepNames == {UnitNames[k] : k \in 1..Len(UnitNames)} \cup {Ghost}
\* Names for inputs in which every unit has a name of its own.
OwnNames == <<"A", "B", "C", "D">>

Seeds == 0..(NumSeeds - 1)

\* ------------------------------------------------------------- sequences
Last(s) == s[Len(s)]
Front(s) == SubSeq(s, 1, Len(s) - 1)
Reverse(s) == [k \in 1..Len(s) |-> s[Len(s) + 1 - k]]
Range(s) == {s[k] : k \in 1..Len(s)}

\* ------------------------------------------------- std::collections::HashMap
\* A map is the sequence of its entries in storage (iteration) order.  Where a
\* new key lands depends on the hasher's random seed.
Slot(seed, len) == (seed % (len + 1)) + 1

HashMapPosition(map, key) ==
    IF \E p \in 1..Len(map) : map[p].key = key
    THEN CHOOSE p \in 1..Len(map) :
            /\ map[p].key = key
            /\ \A q \in 1..(p - 1) : map[q].key # key
    ELSE 0

\* Variant of insert that files every pair as a new entry, as a list of pairs
\* would: a key inserted twice is stored twice.
HashMapInsertNoReplace(map, seed, key, value) ==
    LET at == Slot(seed, Len(map)) IN
    SubSeq(map, 1, at - 1) \o <<[key |-> key, value |-> value]>>
        \o SubSeq(map, at, Len(map))

\* Variant of insert that keeps the value a key already has
\* (entry(key).or_insert(value)).
HashMapInsertKeepFirst(map, seed, key, value) ==
    IF HashMapPosition(map, key) # 0 THEN map
    ELSE LET at == Slot(seed, Len(map)) IN
         SubSeq(map, 1, at - 1) \o <<[key |-> key, value |-> value]>>
             \o SubSeq(map, at, Len(map))

\* HashMap::insert: an existing key keeps its slot and gets the new value.
HashMapInsert(map, seed, key, value) ==
    LET p == HashMapPosition(map, key) IN
    IF p # 0
    THEN [map EXCEPT ![p].value = value]
    ELSE LET at == Slot(seed, Len(map)) IN
         SubSeq(map, 1, at - 1) \o <<[key |-> key, value |-> value]>>
             \o SubSeq(map, at, Len(map))

\* HashMap::get: the value stored under the key, 0 for None.
HashMapGet(map, key) ==
    LET p == HashMapPosition(map, key) IN
    IF p = 0 THEN 0 ELSE map[p].value

\* ---------------------------------------------------------- petgraph::Graph
\* A graph is the sequence of its edges <<from, to>> in insertion order.
\* Graph::neighbors walks a node's outgoing edge list, newest edge first.
Neighbors(edges, a) ==
    LET out == SelectSeq(edges, LAMBDA e : e[1] = a) IN
    [k \in 1..Len(out) |-> out[Len(out) + 1 - k][2]]

\* Reversed(g).neighbors: the incoming edge list, newest edge first.
NeighborsReversed(edges, a) ==
    LET inc == SelectSeq(edges, LAMBDA e : e[2] = a) IN
    [k \in 1..Len(inc) |-> inc[Len(inc) + 1 - k][1]]

\* ------------------------------------------------- petgraph::algo::toposort
\* First pass: iterative depth-first search recording finishing order.
\* st = [discovered, finished, stack, finish_stack, cycle]
RECURSIVE TopoVisit(_, _)
TopoVisit(edges, st) ==
    IF st.cycle # 0 \/ st.stack = <<>> THEN st
    ELSE LET nx == Last(st.stack) IN
         IF nx \notin st.discovered
         THEN LET succs == Neighbors(edges, nx)
                  seen == st.discovered \cup {nx}
              IN IF nx \in Range(succs)
                 THEN [st EXCEPT !.cycle = nx]
                 ELSE TopoVisit(edges,
                        [st EXCEPT !.discovered = seen,
                                   !.stack = @ \o SelectSeq(succs,
                                                LAMBDA s : s \notin seen)])
         ELSE TopoVisit(edges,
                [st EXCEPT !.stack = Front(@),
                           !.finished = @ \cup {nx},
                           !.finish_stack =
                               IF nx \in st.finished THEN @ ELSE Append(@, nx)])

\* for i in g.node_identifiers().rev()
RECURSIVE TopoFinish(_, _, _)
TopoFinish(edges, i, st) ==
    IF i = 0 \/ st.cycle # 0 THEN st
    ELSE IF i \in st.discovered
         THEN TopoFinish(edges, i - 1, st)
         ELSE TopoFinish(edges, i - 1,
                         TopoVisit(edges, [st EXCEPT !.stack = <<i>>]))

\* Dfs::next on the reversed graph: [node, dfs], node = 0 for None.
RECURSIVE DfsNext(_, _)
DfsNext(edges, dfs) ==
    IF dfs.stack = <<>> THEN [node |-> 0, dfs |-> dfs]
    ELSE LET node == Last(dfs.stack)
             rest == Front(dfs.stack)
         IN IF node \notin dfs.discovered
            THEN LET seen == dfs.discovered \cup {node} IN
                 [node |-> node,
                  dfs |-> [discovered |-> seen,
                           stack |-> rest \o SelectSeq(
                                       NeighborsReversed(edges, node),
                                       LAMBDA s : s \notin seen)]]
            ELSE DfsNext(edges, [dfs EXCEPT !.stack = rest])

\* while let Some(j) = dfs.next(Reversed(g)): a second node means a cycle.
RECURSIVE CycleScan(_, _, _)
CycleScan(edges, dfs, cycle) ==
    LET r == DfsNext(edges, dfs) IN
    IF r.node = 0 THEN [cycle |-> 0, dfs |-> r.dfs]
    ELSE IF cycle THEN [cycle |-> r.node, dfs |-> r.dfs]
    ELSE CycleScan(edges, r.dfs, TRUE)

\* Second pass: for &i in &finish_stack { dfs.move_to(i); ... }
RECURSIVE TopoCheck(_, _, _, _)
TopoCheck(edges, order, k, discovered) ==
    IF k > Len(order) THEN 0
    ELSE LET r == CycleScan(edges,
                     [discovered |-> discovered, stack |-> <<order[k]>>],
                     FALSE)
         IN IF r.cycle # 0 THEN r.cycle
            ELSE TopoCheck(edges, order, k + 1, r.dfs.discovered)

\* toposort(&graph, None): [cycle, order]; cycle = 0 means Ok(order).
\* Given n nodes and the edges, as petgraph 0.6 computes it.
Toposort(n, edges) ==
    LET st == TopoFinish(edges, n,
                [discovered |-> {}, finished |-> {}, stack |-> <<>>,
                 finish_stack |-> <<>>, cycle |-> 0])
    IN IF st.cycle # 0 THEN [cycle |-> st.cycle, order |-> <<>>]
       ELSE LET order == Reverse(st.finish_stack)
                c == TopoCheck(edges, order, 1, {})
            IN IF c # 0 THEN [cycle |-> c, order |-> <<>>]
               ELSE [cycle |-> 0, order |-> order]

\* ------------------------------------------------ GraphBuildError / Result
Ok(order) == [kind |-> "Ok", order |-> order, unit |-> "", dep |-> ""]
MissingDependency(unit_name, dep) ==
    [kind |-> "MissingDependency", order |-> <<>>, unit |-> unit_name, dep |-> dep]
DependencyCycle(name) ==
    [kind |-> "DependencyCycle", order |-> <<>>, unit |-> name, dep |-> ""]
NoResult == [kind |-> "None", order |-> <<>>, unit |-> "", dep |-> ""]

\* --------------------------------------------------- generate_unit_list
\* for (i, unit) in units.iter().enumerate() { add_node(i); idx_map.insert(..) }
RECURSIVE BuildIndex(_, _, _, _)
BuildIndex(units, seed, i, map) ==
    IF i > Len(units) THEN map
    ELSE BuildIndex(units, seed, i + 1,
                    HashMapInsert(map, seed, units[i].unit_name, i))

\* graph.add_edge(from, to, ()) for a needs_before entry
EdgeBefore(from, to) == <<from, to>>
\* Variant: the needs_after edge added in the needs_before direction.
EdgeAfterSwapped(from, to) == <<from, to>>
\* graph.add_edge(to, from, ()) for a needs_after entry
EdgeAfter(from, to) == <<to, from>>

\* Variant: the missing unit is only logged and the entry skipped, as
\* generate_unit_list of src/src/parser.rs does.
OnMissingWarnOnly(st, unit_name, dep) == st
\* else-branch of the lookup: return Err(LoadError(MissingDependency(..)))
OnMissing(st, unit_name, dep) == [st EXCEPT !.missing = <<unit_name, dep>>]

\* One of the two inner loops over a dependency list.
\* st = [edges, missing]; missing = <<>> while no early return happened.
RECURSIVE AddEdges(_, _, _, _, _, _)
AddEdges(map, unit, from, deps, before, st) ==
    IF st.missing # <<>> \/ deps = <<>> THEN st
    ELSE LET to == HashMapGet(map, Head(deps)) IN
         IF to # 0
         THEN AddEdges(map, unit, from, Tail(deps), before,
                       [st EXCEPT !.edges = Append(@,
                            IF before THEN EdgeBefore(from, to)
                                      ELSE EdgeAfter(from, to))])
         ELSE AddEdges(map, unit, from, Tail(deps), before,
                       OnMissing(st, unit.unit_name, Head(deps)))

\* Variant: the two inner loops in the other order.
UnitEdgesAfterFirst(map, unit, st) ==
    LET from == HashMapGet(map, unit.unit_name) IN
    AddEdges(map, unit, from, unit.dependency.needs_before, TRUE,
             AddEdges(map, unit, from, unit.dependency.needs_after, FALSE, st))

\* Body of `for unit in units`: needs_before first, then needs_after.
UnitEdges(map, unit, st) ==
    LET from == HashMapGet(map, unit.unit_name) IN
    AddEdges(map, unit, from, unit.dependency.needs_after, FALSE,
             AddEdges(map, unit, from, unit.dependency.needs_before, TRUE, st))

RECURSIVE BuildEdges(_, _, _, _)
BuildEdges(units, map, i, st) ==
    IF i > Len(units) \/ st.missing # <<>> THEN st
    ELSE BuildEdges(units, map, i + 1, UnitEdges(map, units[i], st))

\* The graph the second loop builds (up to its early return, if any).
BuildGraph(units, seed) ==
    BuildEdges(units, BuildIndex(units, seed, 1, <<>>), 1,
               [edges |-> <<>>, missing |-> <<>>])

\* Variant: the error names the first input unit instead of the cycle node's.
CycleNameFirst(units, node) == units[1].unit_name
\* map_err closure: the name of the unit the cycle node stands for
CycleName(units, node) == units[node].unit_name

\* Variant: each sorted node is mapped back through its name, to the first
\* input unit carrying it.
OrderedUnitsByName(units, sorted) ==
    [k \in 1..Len(sorted) |->
        units[CHOOSE i \in 1..Len(units) :
                /\ units[i].unit_name = units[sorted[k]].unit_name
                /\ \A j \in 1..(i - 1) :
                      units[j].unit_name # units[sorted[k]].unit_name]]

\* Variant: the sorted nodes are mapped back last to first.
OrderedUnitsReversed(units, sorted) ==
    [k \in 1..Len(sorted) |-> units[sorted[Len(sorted) + 1 - k]]]

\* sorted.into_iter().map(|node_idx| units[graph[node_idx]].clone()).collect()
OrderedUnits(units, sorted) == [k \in 1..Len(sorted) |-> units[sorted[k]]]

\* Lines 44-52: sort the finished graph g and map nodes back to records.
SortUnits(units, g) ==
    IF g.missing # <<>> THEN MissingDependency(g.missing[1], g.missing[2])
    ELSE LET sorted == Toposort(Len(units), g.edges) IN
         IF sorted.cycle # 0
         THEN DependencyCycle(CycleName(units, sorted.cycle))
         ELSE Ok(OrderedUnits(units, sorted.order))

GenerateUnitList(units, seed) == SortUnits(units, BuildGraph(units, seed))

\* ------------------------------------------------------ UnitFile::validate
\* A string is the sequence of its characters.
IsWhitespace(c) == c = " "

RECURSIVE TrimStart(_)
TrimStart(s) ==
    IF s # <<>> /\ IsWhitespace(Head(s)) THEN TrimStart(Tail(s)) ELSE s

RECURSIVE TrimEnd(_)
TrimEnd(s) ==
    IF s # <<>> /\ IsWhitespace(Last(s)) THEN TrimEnd(Front(s)) ELSE s

\* str::trim
Trim(s) == TrimEnd(TrimStart(s))
\* str::is_empty
IsEmpty(s) == Len(s) = 0

\* if self.unit.unit_name.trim().is_empty() { errors.push(..) }
NameErrors(f) ==
    IF IsEmpty(Trim(f.unit.unit_name)) THEN <<"Unit name cannot be empty">> ELSE <<>>

\* if self.todo.path.trim().is_empty() { errors.push(..) }
PathErrors(f) ==
    IF IsEmpty(Trim(f.todo.path)) THEN <<"Todo path cannot be empty">> ELSE <<>>

\* match self.unit.unit_type { .. }
SectionErrors(f) ==
    IF f.unit.unit_type = "Service" /\ f.service = "None"
    THEN <<"Service unit requires [service] section">>
    ELSE IF f.unit.unit_type = "Target" /\ f.target = "None"
    THEN <<"Target unit requires [target] section">>
    ELSE <<>>

\* for dep in needs_before.iter().chain(&needs_after) { .. }
RECURSIVE DependencyErrors(_)
DependencyErrors(deps) ==
    IF deps = <<>> THEN <<>>
    ELSE (IF IsEmpty(Trim(Head(deps)))
          THEN <<"Dependency name cannot be empty">> ELSE <<>>)
         \o DependencyErrors(Tail(deps))

\* Variant: validation stops at the first violation.
ValidateFirstOnly(f) ==
    LET errors == NameErrors(f) \o PathErrors(f) \o SectionErrors(f)
                  \o DependencyErrors(f.dependency.needs_before
                                      \o f.dependency.needs_after)
    IN [done |-> TRUE, ok |-> errors = <<>>,
        errors |-> IF errors = <<>> THEN <<>> ELSE <<Head(errors)>>]

\* if errors.is_empty() { Ok(()) } else { Err(errors) }
Validate(f) ==
    LET errors == NameErrors(f) \o PathErrors(f) \o SectionErrors(f)
                  \o DependencyErrors(f.dependency.needs_before
                                      \o f.dependency.needs_after)
    IN [done |-> TRUE, ok |-> errors = <<>>, errors |-> errors]

NotValidated == [done |-> FALSE, ok |-> FALSE, errors |-> <<>>]
NoFile == <<>>

\* ------------------------------------------------------------------ inputs
\* Unit names up to renaming: a unit reuses a name seen before or takes the
\* next unused one.
RECURSIVE NameAssign(_)
NameAssign(n) ==
    IF n = 0 THEN {<<>>}
    ELSE UNION {{Append(nm, UnitNames[j]) :
                    j \in 1..(IF Cardinality(Range(nm)) < Len(UnitNames)
                              THEN Cardinality(Range(nm)) + 1
                              ELSE Len(UnitNames))} :
                nm \in NameAssign(n - 1)}

\* The dependency entries of an input, list by list: entry e sits in list
\* e[1] (2i-1 = needs_before of unit i, 2i = needs_after of unit i) and names
\* e[2].
DepEntries(n, k, names) ==
    {f \in [1..k -> (1..(2 * n)) \X names] :
        \A p \in 1..(k - 1) : f[p][1] <= f[p + 1][1]}

ListOf(flat, j) ==
    LET mine == SelectSeq(flat, LAMBDA e : e[1] = j) IN
    [p \in 1..Len(mine) |-> mine[p][2]]

MakeUnits(nm, flat) ==
    [i \in 1..Len(nm) |->
        [unit_name |-> nm[i],
         dependency |-> [needs_before |-> ListOf(flat, 2 * i - 1),
                         needs_after |-> ListOf(flat, 2 * i)]]]

\* ------------------------------------------------------------------- state
VARIABLES units, graph, result, previous, call, file, validation

vars == <<units, graph, result, previous, call, file, validation>>

\* The caller holds some collection of loaded units; nothing was resolved yet.
Init ==
    /\ \E n \in 0..MaxUnits, k \in 0..MaxDeps :
         \E nm \in NameAssign(n), flat \in DepEntries(n, k, DepNames) :
            units = MakeUnits(nm, flat)
    /\ graph = <<>>
    /\ result = NoResult
    /\ previous = NoResult
    /\ call = "none"
    /\ file = NoFile
    /\ validation = NotValidated

\* generate(&units), under some hasher seed: GenerateUnitList(units, seed),
\* with the graph it built kept for inspection
Generate ==
    /\ call = "none"
    /\ \E seed \in Seeds :
        LET g == BuildGraph(units, seed) IN
        /\ graph' = g.edges
        /\ result' = SortUnits(units, g)
    /\ previous' = NoResult
    /\ call' = "generate"
    /\ UNCHANGED <<units, file, validation>>

\* generate(&units) again on the same input, under some hasher seed
Regenerate ==
    /\ call = "generate"
    /\ \E seed \in Seeds :
        LET g == BuildGraph(units, seed) IN
        /\ graph' = g.edges
        /\ result' = SortUnits(units, g)
    /\ previous' = result
    /\ call' = "regenerate"
    /\ UNCHANGED <<units, file, validation>>

Next == Generate \/ Regenerate

Spec == Init /\ [][Next]_vars

\* ----------------------------------------------- redundant declarations
Insert(seq, at, x) == SubSeq(seq, 1, at - 1) \o <<x>> \o SubSeq(seq, at, Len(seq))

WithBefore(us, i, at, name) ==
    [us EXCEPT ![i].dependency.needs_before = Insert(@, at, name)]
WithAfter(us, i, at, name) ==
    [us EXCEPT ![i].dependency.needs_after = Insert(@, at, name)]

\* generate(&units') where units' is the input just resolved with one more
\* entry; the outcome for the input as it was is kept in `previous`.
GenerateAgainOn(us) ==
    /\ units' = us
    /\ \E seed \in Seeds :
        LET g == BuildGraph(us, seed) IN
        /\ graph' = g.edges
        /\ result' = SortUnits(us, g)
    /\ previous' = result
    /\ call' = "redeclare"
    /\ UNCHANGED <<file, validation>>

\* The caller repeats an entry of some dependency list somewhere in that list.
RedeclareDuplicate ==
    /\ call = "generate"
    /\ \E i \in 1..Len(units) :
        \/ \E p \in 1..Len(units[i].dependency.needs_before),
              at \in 1..(Len(units[i].dependency.needs_before) + 1) :
              GenerateAgainOn(WithBefore(units, i, at,
                                         units[i].dependency.needs_before[p]))
        \/ \E p \in 1..Len(units[i].dependency.needs_after),
              at \in 1..(Len(units[i].dependency.needs_after) + 1) :
              GenerateAgainOn(WithAfter(units, i, at,
                                        units[i].dependency.needs_after[p]))

\* The caller states a declared constraint a second time from the other side:
\* U.needs_before = [D] again as D.needs_after = [U], and the reverse.
RedeclareMirror ==
    /\ call = "generate"
    /\ \E i, j \in 1..Len(units) :
        \/ /\ units[j].unit_name \in Range(units[i].dependency.needs_before)
           /\ \E at \in 1..(Len(units[j].dependency.needs_after) + 1) :
                 GenerateAgainOn(WithAfter(units, j, at, units[i].unit_name))
        \/ /\ units[j].unit_name \in Range(units[i].dependency.needs_after)
           /\ \E at \in 1..(Len(units[j].dependency.needs_before) + 1) :
                 GenerateAgainOn(WithBefore(units, j, at, units[i].unit_name))

\* The caller holds some collection of loaded units; nothing was resolved
\* yet.  The largest collections have a name per unit, smaller ones may
\* share names.
InitRedundant ==
    /\ \E n \in 0..MaxUnits, k \in 0..MaxDeps :
         /\ n <= Len(OwnNames)
         /\ \E nm \in (IF n < MaxUnits THEN NameAssign(n)
                                       ELSE {SubSeq(OwnNames, 1, n)}) :
               \E flat \in DepEntries(n, k, Range(nm) \cup {Ghost}) :
                  units = MakeUnits(nm, flat)
    /\ graph = <<>>
    /\ result = NoResult
    /\ previous = NoResult
    /\ call = "none"
    /\ file = NoFile
    /\ validation = NotValidated

NextRedundant == Generate \/ RedeclareDuplicate \/ RedeclareMirror

SpecRedundant == InitRedundant /\ [][NextRedundant]_vars

\* ------------------------------------------------------------ validation
Chars == {" ", "x"}
Strings == UNION {[1..n -> Chars] : n \in 0..MaxStrLen}

\* needs_before and needs_after holding at most MaxFileDeps entries together
DependencySections ==
    UNION {UNION {{[needs_before |-> SubSeq(d, 1, b), needs_after |-> SubSeq(d, b + 1, k)] :
                      b \in 0..k} : d \in [1..k -> Strings]} : k \in 0..MaxFileDeps}

\* The loader has decoded a unit file; it is not validated yet.
InitValidate ==
    /\ units = <<>>
    /\ graph = <<>>
    /\ result = NoResult
    /\ previous = NoResult
    /\ call = "none"
    /\ \E name \in Strings, path \in Strings, type \in {"Service", "Target"},
          service \in {"None", "Some"}, target \in {"None", "Some"},
          dependency \in DependencySections :
            file = [unit |-> [unit_name |-> name, unit_type |-> type],
                    todo |-> [path |-> path],
                    service |-> service,
                    target |-> target,
                    dependency |-> dependency]
    /\ validation = NotValidated

\* unit.validate(): &self, so the file stays as it is
ValidateFile ==
    /\ ~validation.done
    /\ validation' = Validate(file)
    /\ UNCHANGED <<units, graph, result, previous, call, file>>

NextValidate == ValidateFile

SpecValidate == InitValidate /\ [][NextValidate]_vars

\* =========================================================================
\* Vocabulary of the properties
\* =========================================================================
UnitIndices == 1..Len(units)
NamesPresent == {units[i].unit_name : i \in UnitIndices}
HasDuplicateNames == Cardinality(NamesPresent) < Len(units)

\* Every dependency reference of the input in scan order: units in input
\* order, needs_before before needs_after, each list in its own order.
RECURSIVE References(_, _)
References(us, i) ==
    IF i > Len(us) THEN <<>>
    ELSE [p \in 1..Len(us[i].dependency.needs_before) |->
             [unit |-> i, dep |-> us[i].dependency.needs_before[p], before |-> TRUE]]
         \o
         [p \in 1..Len(us[i].dependency.needs_after) |->
             [unit |-> i, dep |-> us[i].dependency.needs_after[p], before |-> FALSE]]
         \o References(us, i + 1)

Refs == References(units, 1)
MissingRefs ==
    LET refs == Refs
        present == NamesPresent
    IN {p \in 1..Len(refs) : refs[p].dep \notin present}
AllPresent == MissingRefs = {}

\* Paths of the graph that generate built
Nodes == 1..Len(units)
EdgeSet == Range(graph)
RECURSIVE ReachFrom(_, _, _)
ReachFrom(es, front, seen) ==
    LET next == {e[2] : e \in {d \in es : d[1] \in front}} \ seen IN
    IF next = {} THEN seen ELSE ReachFrom(es, next, seen \cup next)
\* the nodes reached from a by one edge or more
Reach(a) == ReachFrom(EdgeSet, {a}, {})
OnCycle(a) == a \in Reach(a)
Acyclic == \A a \in Nodes : ~OnCycle(a)

CountIn(seq, x) == Cardinality({k \in 1..Len(seq) : seq[k] = x})
IsPermutation(out, in) ==
    /\ Len(out) = Len(in)
    /\ \A x \in Range(in) \cup Range(out) : CountIn(out, x) = CountIn(in, x)

\* The ways to read the output as a placement of the input records:
\* pos[i] is the output position of input unit i.
Placements ==
    {pos \in [UnitIndices -> 1..Len(result.order)] :
        /\ \A i, j \in UnitIndices : i # j => pos[i] # pos[j]
        /\ \A i \in UnitIndices : result.order[pos[i]] = units[i]}

Respects(pos) ==
    \A i \in UnitIndices :
        /\ \A d \in Range(units[i].dependency.needs_before) :
              \E j \in UnitIndices : units[j].unit_name = d /\ pos[i] < pos[j]
        /\ \A d \in Range(units[i].dependency.needs_after) :
              \E j \in UnitIndices : units[j].unit_name = d /\ pos[j] < pos[i]

\* Three units x, y, z with x.needs_before = [y], y.needs_before = [z] and no
\* other declaration, given in any input order.
IsChain(x, y, z) ==
    /\ Len(units) = 3
    /\ {x, y, z} = UnitIndices
    /\ ~HasDuplicateNames
    /\ \A i \in UnitIndices : units[i].dependency.needs_after = <<>>
    /\ units[x].dependency.needs_before = <<units[y].unit_name>>
    /\ units[y].dependency.needs_before = <<units[z].unit_name>>
    /\ units[z].dependency.needs_before = <<>>

ChainOrdered ==
    \A x, y, z \in UnitIndices :
        IsChain(x, y, z) => result.order = <<units[x], units[y], units[z]>>

Called == call # "none"

\* =========================================================================
\* C1  Whenever generate returns Ok, every declared constraint is respected
\*     in the output: each unit U comes strictly before the unit named by
\*     each of its needs_before entries and strictly after the unit named by
\*     each of its needs_after entries; the chain A before B, B before C
\*     yields exactly A, B, C for any input order.
\* =========================================================================
C1_ConstraintsRespected ==
    (Called /\ result.kind = "Ok") =>
        /\ \E pos \in Placements : Respects(pos)
        /\ ChainOrdered

\* The same property restricted to inputs whose unit names are all distinct.
C1_RespectedWhenNamesUnique ==
    (Called /\ result.kind = "Ok" /\ ~HasDuplicateNames) =>
        /\ \E pos \in Placements : Respects(pos)
        /\ ChainOrdered

\* =========================================================================
\* C2  If every named dependency is an input unit and the graph is acyclic,
\*     generate returns Ok and the output is a permutation of the input:
\*     as many records, each input record exactly once and unchanged.  The
\*     empty input gives Ok with the empty sequence.
\* =========================================================================
C2_OkPermutation ==
    (Called /\ AllPresent /\ Acyclic) =>
        /\ result.kind = "Ok"
        /\ IsPermutation(result.order, units)
        /\ units = <<>> => result = Ok(<<>>)

C2_Witness ==
    /\ call = "generate"
    /\ AllPresent /\ Acyclic
    /\ Len(units) = 3
    /\ HasDuplicateNames
    /\ Len(graph) = 2
    /\ result.kind = "Ok"
    /\ result.order # units

\* =========================================================================
\* C3  If some unit U lists a name D that no input unit carries, resolution
\*     fails with a missing-dependency error carrying such a pair
\*     (U's name, D); the reference is not skipped and no ordering is
\*     returned.
\* =========================================================================
C3_MissingDependencyReported ==
    (Called /\ ~AllPresent) =>
        /\ result.kind = "MissingDependency"
        /\ result.order = <<>>
        /\ LET refs == Refs IN
           \E p \in MissingRefs :
              /\ result.unit = units[refs[p].unit].unit_name
              /\ result.dep = refs[p].dep

C3_Witness ==
    /\ call = "generate"
    /\ Cardinality(MissingRefs) = 1
    /\ Len(Refs) = 2
    /\ Refs[2].dep = Ghost
    /\ result = MissingDependency("B", Ghost)

\* =========================================================================
\* C4  If every named dependency is present and the graph contains a cycle
\*     (of any length, a unit naming itself included), generate fails with
\*     DependencyCycle(Z) and returns no ordering, Z being the name of a
\*     unit that lies on a cycle of the graph.
\* =========================================================================
C4_CycleReported ==
    (Called /\ AllPresent /\ ~Acyclic) =>
        /\ result.kind = "DependencyCycle"
        /\ result.order = <<>>
        /\ \E i \in Nodes : OnCycle(i) /\ units[i].unit_name = result.unit

C4_Witness ==
    /\ call = "generate"
    /\ AllPresent
    /\ result.kind = "DependencyCycle"
    /\ \A e \in EdgeSet : e[1] # e[2]
    /\ ~OnCycle(1)
    /\ ~HasDuplicateNames

\* =========================================================================
\* C5  generate is deterministic: a second run on the same input returns
\*     the same outcome (the identical sequence, or the identical error with
\*     the identical names), whatever order the hash map keeps its keys in.
\* =========================================================================
C5_Deterministic ==
    call = "regenerate" => result = previous

C5_Witness ==
    /\ call = "regenerate"
    /\ HasDuplicateNames
    /\ Len(graph) = 2
    /\ result.kind = "Ok"
    /\ result = previous

\* =========================================================================
\* C8  (as claimed) Tie-breaking is stable: whenever generate returns Ok,
\*     two units neither of which is reachable from the other appear in the
\*     output in their input order; an input without dependency
\*     declarations is returned in its input order.  Stated for inputs whose
\*     unit names are all distinct, where every unit is its own graph node.
\* =========================================================================
Unconstrained(i, j) == j \notin Reach(i) /\ i \notin Reach(j)

C8_StableTieBreaking ==
    (Called /\ result.kind = "Ok" /\ ~HasDuplicateNames) =>
        \E pos \in Placements :
            \A i, j \in UnitIndices :
                (i < j /\ Unconstrained(i, j)) => pos[i] < pos[j]

\* C8  (amended) When every edge of the graph runs from an earlier input unit
\*     to a later one, the output is exactly the input sequence; this covers
\*     the input without dependency declarations.
InputOrderValid == \A e \in EdgeSet : e[1] < e[2]

C8_InputOrderKept ==
    (Called /\ AllPresent /\ InputOrderValid) => result = Ok(units)

C8_Witness ==
    /\ call = "generate"
    /\ AllPresent /\ InputOrderValid
    /\ Len(units) = 3
    /\ Len(graph) = 1
    /\ result = Ok(units)

\* =========================================================================
\* C9  When several input units share a name N, the index keeps the last of
\*     them: every edge that a declaration naming N, or a declaration of a
\*     unit named N, produces is attached to the node of the last unit named
\*     N, and each earlier unit named N has a node without edges.  The
\*     duplicate makes generate fail in no case, and on success every input
\*     record, shadowed ones included, appears exactly once in the output.
\* =========================================================================
LastNamed(name) ==
    CHOOSE i \in UnitIndices :
        /\ units[i].unit_name = name
        /\ \A j \in UnitIndices : units[j].unit_name = name => j <= i

Shadowed(i) == \E j \in UnitIndices : j > i /\ units[j].unit_name = units[i].unit_name

DeclaredEdge(r) ==
    IF r.before
    THEN <<LastNamed(units[r.unit].unit_name), LastNamed(r.dep)>>
    ELSE <<LastNamed(r.dep), LastNamed(units[r.unit].unit_name)>>

C9_LastDuplicateWins ==
    (Called /\ HasDuplicateNames) =>
        /\ \A e \in EdgeSet : ~Shadowed(e[1]) /\ ~Shadowed(e[2])
        /\ AllPresent =>
              LET refs == Refs IN
              graph = [p \in 1..Len(refs) |-> DeclaredEdge(refs[p])]
        /\ (AllPresent /\ Acyclic) => result.kind = "Ok"
        /\ result.kind = "Ok" => IsPermutation(result.order, units)

C9_Witness ==
    /\ call = "generate"
    /\ HasDuplicateNames
    /\ Len(units) = 3
    /\ Len(graph) = 2
    /\ \E p \in 1..Len(Refs) : Shadowed(Refs[p].unit)
    /\ \E p \in 1..Len(Refs) : \E i \in UnitIndices :
          Shadowed(i) /\ units[i].unit_name = Refs[p].dep
    /\ result.kind = "Ok"

\* =========================================================================
\* C10 Missing-dependency detection comes before cycle detection and takes
\*     the first match: with a reference to an absent unit in the input,
\*     generate returns MissingDependency for the first such reference in
\*     scan order, even if the declarations also form a cycle;
\*     DependencyCycle is returned only when every named dependency is
\*     present.
\* =========================================================================
FirstMissing ==
    LET missing == MissingRefs IN
    CHOOSE p \in missing : \A q \in missing : p <= q

C10_FirstMissingWins ==
    Called =>
        /\ ~AllPresent =>
              LET first == Refs[FirstMissing] IN
              result = MissingDependency(units[first.unit].unit_name, first.dep)
        /\ result.kind = "DependencyCycle" => AllPresent

\* A unit that names itself and, after that, a unit that does not exist.
C10_Witness ==
    /\ call = "generate"
    /\ ~Acyclic
    /\ Len(Refs) = 2
    /\ MissingRefs = {2}
    /\ result.kind = "MissingDependency"

\* =========================================================================
\* C6  (as claimed) Redundant declarations are idempotent: a duplicate entry
\*     in a dependency list, or a constraint declared from both sides, leaves
\*     the outcome of generate exactly as it was with the constraint declared
\*     once (the same failure, or the same output sequence).  A.needs_before
\*     = [B] with B.needs_after = [A] succeeds with order A, B.  Stated for
\*     inputs without dangling reference, where the choice of the reported
\*     reference does not interfere.
\* =========================================================================
NamesOf(order) == [k \in 1..Len(order) |-> order[k].unit_name]

\* Two units x, y: x.needs_before = [y] and y.needs_after = [x], nothing else.
IsDeclaredTwice(x, y) ==
    /\ Len(units) = 2
    /\ {x, y} = UnitIndices
    /\ ~HasDuplicateNames
    /\ units[x].dependency = [needs_before |-> <<units[y].unit_name>>,
                              needs_after |-> <<>>]
    /\ units[y].dependency = [needs_before |-> <<>>,
                              needs_after |-> <<units[x].unit_name>>]

DeclaredTwiceOrdered ==
    \A x, y \in UnitIndices :
        (Called /\ IsDeclaredTwice(x, y)) => result = Ok(<<units[x], units[y]>>)

C6_RedundantSameOutcome ==
    /\ DeclaredTwiceOrdered
    /\ (call = "redeclare" /\ AllPresent) =>
          /\ result.kind = previous.kind
          /\ result.unit = previous.unit
          /\ result.dep = previous.dep
          /\ NamesOf(result.order) = NamesOf(previous.order)

\* C6  (amended) A redundant declaration leaves the kind of outcome unchanged
\*     (Ok, MissingDependency or DependencyCycle), a missing-dependency error
\*     still names the same declaring unit, and a successful output holds the
\*     same units, though possibly in another order.  A.needs_before = [B]
\*     with B.needs_after = [A] succeeds with order A, B.
C6_RedundantSameKind ==
    /\ DeclaredTwiceOrdered
    /\ call = "redeclare" =>
          /\ result.kind = previous.kind
          /\ result.kind = "MissingDependency" => result.unit = previous.unit
          /\ result.kind = "Ok" =>
                IsPermutation(NamesOf(result.order), NamesOf(previous.order))

C6_Witness ==
    /\ call = "redeclare"
    /\ Len(units) = 3
    /\ Len(graph) = 3
    /\ result.kind = "Ok"
    /\ NamesOf(result.order) # NamesOf(previous.order)

\* =========================================================================
\* C7  validate returns Ok exactly when the four rules hold (unit_name and
\*     todo.path not blank, the section matching unit_type present, no blank
\*     dependency entry); otherwise Err with the complete list of
\*     violations, an entry for every violated rule and not only the first.
\* =========================================================================
Blank(s) == \A k \in 1..Len(s) : s[k] = " "
AllDependencies == file.dependency.needs_before \o file.dependency.needs_after
BlankDependencies == {k \in 1..Len(AllDependencies) : Blank(AllDependencies[k])}

NameRule == ~Blank(file.unit.unit_name)
PathRule == ~Blank(file.todo.path)
SectionRule ==
    /\ file.unit.unit_type = "Service" => file.service = "Some"
    /\ file.unit.unit_type = "Target" => file.target = "Some"
DependencyRule == BlankDependencies = {}

C7_ValidateComplete ==
    validation.done =>
        /\ validation.ok <=> (NameRule /\ PathRule /\ SectionRule /\ DependencyRule)
        /\ validation.ok => validation.errors = <<>>
        /\ CountIn(validation.errors, "Unit name cannot be empty")
              = (IF NameRule THEN 0 ELSE 1)
        /\ CountIn(validation.errors, "Todo path cannot be empty")
              = (IF PathRule THEN 0 ELSE 1)
        /\ CountIn(validation.errors, "Service unit requires [service] section")
              + CountIn(validation.errors, "Target unit requires [target] section")
              = (IF SectionRule THEN 0 ELSE 1)
        /\ CountIn(validation.errors, "Dependency name cannot be empty")
              = Cardinality(BlankDependencies)
        /\ Len(validation.errors)
              = (IF NameRule THEN 0 ELSE 1) + (IF PathRule THEN 0 ELSE 1)
                + (IF SectionRule THEN 0 ELSE 1) + Cardinality(BlankDependencies)

C7_Witness ==
    /\ validation.done
    /\ file.unit.unit_name = <<" ", " ">>
    /\ file.todo.path = <<" ", "x">>
    /\ file.unit.unit_type = "Service" /\ file.service = "None" /\ file.target = "Some"
    /\ file.dependency.needs_after = <<<<" ">>>>
    /\ Len(validation.errors) = 3

====
